---- MODULE Spec2Model ----
(***************************************************************************)
(* Domain Hunter: the availability resolver (RDAP lookup, DNS fallback,   *)
(* unknown classification), the rate-limited sequential run over a list   *)
(* of candidate domains, and the day-of-month batch selection.            *)
(***************************************************************************)
EXTENDS Integers, Sequences, FiniteSets, TLC

\* ------------------------------------------------------------- bounds

\* Longest RDAP status list the registry answers with.
MaxStatusLen == 2
\* Most NS records a DNS answer carries.
MaxNS == 2
\* Longest candidate list handed to process_domains_sequential.
MaxDomains == 2
\* Largest variation corpus and batch size of the batch selection.
MaxCorpus == 7
MaxBatch == 4
\* Days a rotation is followed for.
MaxDays == 8
\* Longest raw name made of any of four characters.
MaxShort == 3
\* Longest raw name.
MaxRawLen == 27
\* Most raw names fetched.
MaxNames == 2
\* Most base names handed to generate_domains on its own.
MaxBases == 3
\* Longest result sequence handed to group_by_base on its own.
MaxResults == 4

\* ---------------------------------------------------------- constants

TLDS == <<".com", ".app", ".ai", ".so">>
DELAY_MS == 1200

STATUS_AVAILABLE == "AVAILABLE"
STATUS_REGISTERED == "REGISTERED"
STATUS_POSSIBLE_AVAILABLE == "POSSIBLE_AVAILABLE"

\* Python's None, and an exception leaving a function.
None == "None"
Raise == "Raise"

\* ------------------------------------------------ the registry's answers

\* Elements of an RDAP status list: strings (as sequences of characters) and
\* a wrongly typed element (a number), on which s.lower() raises.
TokActive == [isStr |-> TRUE, text |-> <<"a", "c", "t", "i", "v", "e">>]
TokOK == [isStr |-> TRUE, text |-> <<"O", "K">>]
TokInactive == [isStr |-> TRUE, text |-> <<"i", "n", "a", "c", "t", "i", "v", "e">>]
TokHold == [isStr |-> TRUE, text |-> <<"c", "l", "i", "e", "n", "t", " ", "h", "o", "l", "d">>]
TokNumber == [isStr |-> FALSE, text |-> <<>>]
Tokens == {TokActive, TokOK, TokInactive, TokHold, TokNumber}

StatusLists == UNION {[1..n -> Tokens] : n \in 0..MaxStatusLen}

\* A response body by what response.json() makes of it:
\*   nonjson   - json() raises
\*   scalar    - null, a number, a boolean: `x in data` raises TypeError
\*   container - a JSON string or array: `x in data` is a substring / element
\*               test, data['status'] raises TypeError
\*   object    - a JSON object: `x in data` is a key test
NoBody ==
    [kind |-> "nonjson", hasStatus |-> FALSE, statusIsList |-> FALSE,
     statusList |-> <<>>, hasEntities |-> FALSE, hasNameservers |-> FALSE]

Bodies ==
    {NoBody, [NoBody EXCEPT !.kind = "scalar"]}
    \cup {[NoBody EXCEPT !.kind = "container", !.hasStatus = s,
                         !.hasEntities = e, !.hasNameservers = n] :
            s \in BOOLEAN, e \in BOOLEAN, n \in BOOLEAN}
    \cup {[NoBody EXCEPT !.kind = "object", !.hasEntities = e,
                         !.hasNameservers = n] :
            e \in BOOLEAN, n \in BOOLEAN}
    \cup {[NoBody EXCEPT !.kind = "object", !.hasStatus = TRUE,
                         !.hasEntities = e, !.hasNameservers = n] :
            e \in BOOLEAN, n \in BOOLEAN}
    \cup {[kind |-> "object", hasStatus |-> TRUE, statusIsList |-> TRUE,
           statusList |-> l, hasEntities |-> e, hasNameservers |-> n] :
            l \in StatusLists, e \in BOOLEAN, n \in BOOLEAN}

\* What requests.get does: a response with a status code and a body, or an
\* exception (connection error, timeout).
RdapOutcomes ==
    {[kind |-> "response", code |-> 200, body |-> b] : b \in Bodies}
    \cup {[kind |-> "response", code |-> c, body |-> NoBody] : c \in {404, 429, 500}}
    \cup {[kind |-> k, code |-> 0, body |-> NoBody] : k \in {"ConnectionError", "Timeout"}}

\* What resolver.resolve(domain, 'NS') does: an answer with n records, or an
\* exception.
DnsOutcomes ==
    {[kind |-> "answer", n |-> n] : n \in 0..MaxNS}
    \cup {[kind |-> k, n |-> 0] : k \in {"NXDOMAIN", "NoAnswer", "Timeout", "NoNameservers"}}

\* ------------------------------------------------------------ check_rdap

\* str.lower(), a character at a time.
Lower(c) ==
    CASE c = "A" -> "a" [] c = "B" -> "b" [] c = "C" -> "c" [] c = "D" -> "d"
      [] c = "E" -> "e" [] c = "F" -> "f" [] c = "G" -> "g" [] c = "H" -> "h"
      [] c = "I" -> "i" [] c = "J" -> "j" [] c = "K" -> "k" [] c = "L" -> "l"
      [] c = "M" -> "m" [] c = "N" -> "n" [] c = "O" -> "o" [] c = "P" -> "p"
      [] c = "Q" -> "q" [] c = "R" -> "r" [] c = "S" -> "s" [] c = "T" -> "t"
      [] c = "U" -> "u" [] c = "V" -> "v" [] c = "W" -> "w" [] c = "X" -> "x"
      [] c = "Y" -> "y" [] c = "Z" -> "z"
      [] OTHER -> c

LowerStr(s) == [i \in 1..Len(s) |-> Lower(s[i])]

\* Python's `needle in hay` on strings.
Contains(needle, hay) ==
    \E i \in 1..(Len(hay) + 1 - Len(needle)) :
        SubSeq(hay, i, i + Len(needle) - 1) = needle

StrActive == <<"a", "c", "t", "i", "v", "e">>
StrOk == <<"o", "k">>

\* 'active' in s.lower() or 'ok' in s.lower()
TokenMatches(s) ==
    Contains(StrActive, LowerStr(s.text)) \/ Contains(StrOk, LowerStr(s.text))

\* any(... for s in data['status']), left to right: "True" at the first match,
\* Raise at a non-string met before any match, "False" at the end of the list.
RECURSIVE has_active(_)
has_active(l) ==
    IF l = <<>> THEN "False"
    ELSE IF ~Head(l).isStr THEN Raise
    ELSE IF TokenMatches(Head(l)) THEN "True"
    ELSE has_active(Tail(l))

\* 'entities' in data or 'nameservers' in data
HasRecords(data) == data.hasEntities \/ data.hasNameservers

\* The 200 branch with "200 = domain found = registered" taken at its word: a body
\* with neither signal is reported registered.
rdap_200_found_is_registered(data) ==
    IF data.kind = "nonjson" THEN Raise
    ELSE IF data.kind = "scalar" THEN Raise
    ELSE IF data.hasStatus /\ data.kind = "container" THEN Raise
    ELSE IF data.hasStatus /\ data.statusIsList /\ has_active(data.statusList) = Raise
         THEN Raise
    ELSE STATUS_REGISTERED

\* The 200 branch: the body parsed and its two signals inspected.
rdap_200(data) ==
    IF data.kind = "nonjson" THEN Raise
    ELSE IF data.kind = "scalar" THEN Raise
    ELSE IF data.hasStatus /\ data.kind = "container" THEN Raise
    ELSE IF data.hasStatus /\ data.statusIsList /\ has_active(data.statusList) = Raise
         THEN Raise
    ELSE IF data.hasStatus /\ data.statusIsList /\ has_active(data.statusList) = "True"
         THEN STATUS_REGISTERED
    ELSE IF HasRecords(data) THEN STATUS_REGISTERED
    ELSE None

\* The try block with 404 handled like any other unclear status code.
rdap_try_404_unclear(o) ==
    IF o.kind # "response" THEN Raise
    ELSE IF o.code = 200 THEN rdap_200(o.body)
    ELSE None

\* The body of check_rdap's try block.
rdap_try(o) ==
    IF o.kind # "response" THEN Raise
    ELSE IF o.code = 404 THEN STATUS_AVAILABLE
    ELSE IF o.code = 200 THEN rdap_200(o.body)
    ELSE None

\* check_rdap without its except clause.
check_rdap_no_except(o) == rdap_try(o)

\* check_rdap: except Exception -> None.
check_rdap(o) == IF rdap_try(o) = Raise THEN None ELSE rdap_try(o)

\* ------------------------------------------------------------- check_dns

\* The body of check_dns's try block.
dns_try(o) ==
    IF o.kind = "answer"
    THEN (IF o.n > 0 THEN STATUS_REGISTERED ELSE STATUS_AVAILABLE)
    ELSE Raise

\* check_dns catching NXDOMAIN alone as "available".
check_dns_nxdomain_only(o) ==
    IF dns_try(o) # Raise THEN dns_try(o)
    ELSE IF o.kind = "NXDOMAIN" THEN STATUS_AVAILABLE
    ELSE None

\* check_dns: except (NXDOMAIN, NoAnswer) -> AVAILABLE; except Exception -> None.
check_dns(o) ==
    IF dns_try(o) # Raise THEN dns_try(o)
    ELSE IF o.kind \in {"NXDOMAIN", "NoAnswer"} THEN STATUS_AVAILABLE
    ELSE None

\* ---------------------------------------------------------- check_domain

\* The DNS stage entered unless RDAP said registered.
NeedsDns_unless_registered(s) == s # STATUS_REGISTERED

\* `if status is None:` after the RDAP stage.
NeedsDns(s) == s = None

\* `if status is None: status = STATUS_POSSIBLE_AVAILABLE`
classify(s) == IF s = None THEN STATUS_POSSIBLE_AVAILABLE ELSE s

\* time.sleep(DELAY_MS / 1000.0), in milliseconds.
sleep_ms == DELAY_MS

\* ------------------------------------------------------ generate_domains

RECURSIVE domains_of(_, _)
domains_of(keyword, tlds) ==
    IF tlds = <<>> THEN <<>>
    ELSE <<[base |-> keyword, domain |-> keyword \o Head(tlds), tld |-> Head(tlds)]>>
         \o domains_of(keyword, Tail(tlds))

\* The candidates with the last keyword's first.
RECURSIVE generate_domains_last_first(_)
generate_domains_last_first(keywords) ==
    IF keywords = <<>> THEN <<>>
    ELSE generate_domains_last_first(Tail(keywords)) \o domains_of(Head(keywords), TLDS)

RECURSIVE generate_domains(_)
generate_domains(keywords) ==
    IF keywords = <<>> THEN <<>>
    ELSE domains_of(Head(keywords), TLDS) \o generate_domains(Tail(keywords))

\* The keywords whose candidates the runs below are given.
Keywords == <<"acme", "zen">>

\* ------------------------------------------------------------ keywords.py

\* A name is the sequence of its characters.
AFFIXES == <<<<"a", "i">>, <<"l", "a", "b", "s">>, <<"c", "l", "o", "u", "d">>, <<"t", "e", "c", "h">>>>

\* The characters of [a-z0-9], in code point order.
CharOrder ==
    <<"0", "1", "2", "3", "4", "5", "6", "7", "8", "9",
      "a", "b", "c", "d", "e", "f", "g", "h", "i", "j", "k", "l", "m",
      "n", "o", "p", "q", "r", "s", "t", "u", "v", "w", "x", "y", "z">>

\* The characters re.sub(r'[^a-z0-9]', '', ...) leaves in place.
KeptChar(c) == \E i \in 1..Len(CharOrder) : CharOrder[i] = c

NORMALIZE_CUT == 25
VALID_MIN == 3
VALID_MAX == 25
VARIATION_MAX == 25

\* Python's s[:n]
Take(s, n) == SubSeq(s, 1, IF Len(s) < n THEN Len(s) ELSE n)

\* The normalization without its [:25].
normalize_name_uncut(name) == SelectSeq(LowerStr(name), KeptChar)

\* re.sub(r'[^a-z0-9]', '', name.lower())[:25]
normalize_name(name) == Take(SelectSeq(LowerStr(name), KeptChar), NORMALIZE_CUT)

\* 3 <= len(name) <= 25
is_valid_name(name) == VALID_MIN <= Len(name) /\ Len(name) <= VALID_MAX

\* The affixed forms that are short enough.
with_suffix(clean_name) ==
    {clean_name \o AFFIXES[a] : a \in {x \in 1..Len(AFFIXES) :
                                        Len(clean_name \o AFFIXES[x]) <= VARIATION_MAX}}

with_prefix(clean_name) ==
    {AFFIXES[a] \o clean_name : a \in {x \in 1..Len(AFFIXES) :
                                        Len(AFFIXES[x] \o clean_name) <= VARIATION_MAX}}

\* The variations without those that put an affix in front.
generate_variations_suffix_only(base_name) ==
    IF ~is_valid_name(normalize_name(base_name)) THEN {}
    ELSE {normalize_name(base_name)} \cup with_suffix(normalize_name(base_name))

\* generate_variations: the list made from the set of variations, in no
\* order of its own; [] for a name that is not valid once normalized.
generate_variations(base_name) ==
    IF ~is_valid_name(normalize_name(base_name)) THEN {}
    ELSE {normalize_name(base_name)}
         \cup with_suffix(normalize_name(base_name))
         \cup with_prefix(normalize_name(base_name))

\* Python's s < t on strings of these characters.
Rank(c) == CHOOSE i \in 1..Len(CharOrder) : CharOrder[i] = c

StrLess(s, t) ==
    \E i \in 1..(Len(t)) :
        /\ i <= Len(s) + 1
        /\ SubSeq(s, 1, i - 1) = SubSeq(t, 1, i - 1)
        /\ i <= Len(s) => Rank(s[i]) < Rank(t[i])

\* sorted(list(names))
RECURSIVE sorted(_)
sorted(names) ==
    IF names = {} THEN <<>>
    ELSE LET least == CHOOSE m \in names : \A o \in names \ {m} : StrLess(m, o)
         IN <<least>> \o sorted(names \ {least})

\* unique_normalized: the normalized names that are valid, each once.
normalize_and_filter(raw_names) ==
    {n \in {normalize_name(raw_names[k]) : k \in 1..Len(raw_names)} : is_valid_name(n)}

\* The variations of each fetched name that is valid once normalized, one name
\* after the other as fetched, neither deduplicated nor sorted.
RECURSIVE variations_as_fetched(_)
variations_as_fetched(raw_names) ==
    IF raw_names = <<>> THEN <<>>
    ELSE sorted(generate_variations(Head(raw_names))) \o variations_as_fetched(Tail(raw_names))

\* process_all_keywords on the names fetch_all_sources returned.
process_all_keywords(raw_names) ==
    sorted(UNION {generate_variations(n) : n \in normalize_and_filter(raw_names)})

\* ------------------------------------------------------- get_todays_batch

\* process_all_keywords returns the sorted variations; the n variations are
\* named by their rank in that order.
Corpus(n) == [i \in 1..n |-> i]

\* (len(all_keywords) + batch_size - 1) // batch_size
total_batches(n, size) == (n + size - 1) \div size

\* The batch index taken from the day as it is, not from day - 1.
current_batch_from_day(day, total) == day % total

\* (day_of_month - 1) % total_batches, for total_batches > 0
current_batch(day, total) == (day - 1) % total

\* current_batch * batch_size
start_index(current, size) == current * size

\* The end taken as the index of the batch's last element.
end_index_inclusive(start, size, n) == IF start + size < n THEN start + size - 1 ELSE n

\* min(start_index + batch_size, len(all_keywords))
end_index(start, size, n) == IF start + size < n THEN start + size ELSE n

\* Python's keywords[start:end], for 0 <= start <= end <= len(keywords)
Slice(keywords, start, end) == SubSeq(keywords, start + 1, end)

\* get_todays_batch from its keywords on: the batch it returns, or the
\* ZeroDivisionError that `% total_batches` raises when there are no batches.
get_todays_batch(keywords, size, day) ==
    IF total_batches(Len(keywords), size) = 0
    THEN [raised |-> TRUE, batch |-> <<>>]
    ELSE [raised |-> FALSE,
          batch |-> Slice(keywords,
                          start_index(current_batch(day, total_batches(Len(keywords), size)), size),
                          end_index(start_index(current_batch(day, total_batches(Len(keywords), size)), size),
                                    size, Len(keywords)))]

\* --------------------------------- group_by_base, filter_interesting_groups

\* A dict keeps its keys in insertion order: a mapping from base to results is
\* a sequence of [base, results] entries with distinct bases.
HasKey(grouped, base) == \E k \in 1..Len(grouped) : grouped[k].base = base

KeyIndex(grouped, base) == CHOOSE k \in 1..Len(grouped) : grouped[k].base = base

\* The loop body of group_by_base with the result put at the front of its
\* group's list.
add_result_in_front(grouped, result) ==
    IF HasKey(grouped, result.base)
    THEN [grouped EXCEPT ![KeyIndex(grouped, result.base)].results = <<result>> \o @]
    ELSE Append(grouped, [base |-> result.base, results |-> <<result>>])

\* The loop body of group_by_base:
\*   if base not in grouped: grouped[base] = []
\*   grouped[base].append(result)
add_result(grouped, result) ==
    IF HasKey(grouped, result.base)
    THEN [grouped EXCEPT ![KeyIndex(grouped, result.base)].results = Append(@, result)]
    ELSE Append(grouped, [base |-> result.base, results |-> <<result>>])

RECURSIVE group_into(_, _)
group_into(grouped, rs) ==
    IF rs = <<>> THEN grouped
    ELSE group_into(add_result(grouped, Head(rs)), Tail(rs))

group_by_base(rs) == group_into(<<>>, rs)

\* The test with all() in the place of any(): no member is registered.
has_non_registered_all(rs) ==
    \A k \in 1..Len(rs) : rs[k].status # STATUS_REGISTERED

\* any(r['status'] != STATUS_REGISTERED for r in results)
has_non_registered(rs) ==
    \E k \in 1..Len(rs) : rs[k].status # STATUS_REGISTERED

\* The filter that keeps only the groups with an available domain.
RECURSIVE keep_groups_with_available(_)
keep_groups_with_available(grouped) ==
    IF grouped = <<>> THEN <<>>
    ELSE (IF \E k \in 1..Len(Head(grouped).results) :
                Head(grouped).results[k].status = STATUS_AVAILABLE
          THEN <<Head(grouped)>> ELSE <<>>)
         \o keep_groups_with_available(Tail(grouped))

RECURSIVE filter_interesting_groups(_)
filter_interesting_groups(grouped) ==
    IF grouped = <<>> THEN <<>>
    ELSE (IF has_non_registered(Head(grouped).results) THEN <<Head(grouped)>> ELSE <<>>)
         \o filter_interesting_groups(Tail(grouped))

\* ------------------------------------------------------------------ main

\* keywords = get_todays_batch(200)
MAIN_BATCH_SIZE == 200

\* The status of one check_domain call, from what the registry and the
\* resolver do.
check_domain_status(r, d) ==
    classify(IF NeedsDns(check_rdap(r)) THEN check_dns(d) ELSE check_rdap(r))

\* Every status a check_domain call can return.
CheckDomainStatuses ==
    {check_domain_status(r, d) : r \in RdapOutcomes, d \in DnsOutcomes}

\* sum(1 for r in results if r['status'] == status)
count_status(rs, st) == Cardinality({k \in 1..Len(rs) : rs[k].status = st})

\* csv_rows: one [base, domain, status] row per result of each interesting
\* group, group after group.
RECURSIVE rows_of(_, _)
rows_of(base, rs) ==
    IF rs = <<>> THEN <<>>
    ELSE <<<<base, Head(rs).domain, Head(rs).status>>>> \o rows_of(base, Tail(rs))

RECURSIVE csv_rows(_)
csv_rows(interesting) ==
    IF interesting = <<>> THEN <<>>
    ELSE rows_of(Head(interesting).base, Head(interesting).results)
         \o csv_rows(Tail(interesting))

CsvHeader == <<"base", "domain", "status">>

\* What send_email does: it sends, or raises (credentials missing from the
\* environment, or a delivery error).
EmailOutcomes == {"sent", "no_credentials", "smtp_error"}

send_email(outcome) == IF outcome = "sent" THEN "ok" ELSE Raise

\* ------------------------------------------------------------- the state

VARIABLES
    domain_list,    \* process_domains_sequential's argument
    idx,            \* the item the loop is at (0 before the first)
    pc,             \* "loop", "rdap", "dns", "sleep", "return", "done", "aborted"
    rdapWorld,      \* what the registry does for the current domain
    dnsWorld,       \* what the resolver does for the current domain
    status,         \* check_domain's local `status`
    results,        \* process_domains_sequential's `results`
    calls,          \* the network calls and sleeps made so far, in order, each
                    \* with the check it belongs to and what it returned
    all_keywords,   \* get_todays_batch's sorted corpus
    batch_size,     \* get_todays_batch's argument
    day_of_month,   \* datetime.now().day
    batch,          \* the batch get_todays_batch returned
    bpc,            \* get_todays_batch: "call", "returned", "raised"
    month_len,      \* days in the current month
    days_run,       \* daily runs made so far
    times_selected, \* how often each variation was in a day's batch
    mpc,            \* main's position
    keywords,       \* main's `keywords`, today's batch
    grouped,        \* group_by_base's mapping
    interesting,    \* filter_interesting_groups's mapping
    totals,         \* total_available, total_possible, total_registered
    csv_file,       \* results.csv as this run wrote it, if it did
    email,          \* the notification: not attempted, sent, or failed
    stderr,         \* what the run printed to stderr
    all_names,      \* what fetch_all_sources returned
    unique_normalized, \* process_all_keywords' valid normalized names
    base_name,      \* generate_variations' argument
    variations,     \* what generate_variations returned
    kpc,            \* process_all_keywords' and generate_variations' position
    other_names,    \* what fetch_all_sources returned to another run of the day
    other_keywords, \* that run's corpus
    other_batch,    \* that run's batch
    other_bpc,      \* that run's get_todays_batch: not called, returned, raised
    regrouped       \* group_by_base and filter_interesting_groups applied again

runVars == <<domain_list, idx, pc, rdapWorld, dnsWorld, status, results, calls>>
batchVars == <<all_keywords, batch_size, day_of_month, batch, bpc>>
rotationVars == <<month_len, days_run, times_selected>>
mainVars == <<mpc, keywords, grouped, interesting, totals, csv_file, email, stderr>>
keywordVars == <<all_names, unique_normalized, base_name, variations, kpc>>
rerunVars == <<other_names, other_keywords, other_batch, other_bpc, regrouped>>
vars == <<runVars, batchVars, rotationVars, mainVars, keywordVars, rerunVars>>

NoRdap == [kind |-> "none", code |-> 0, body |-> NoBody]
NoDns == [kind |-> "none", n |-> 0]

\* No batch selection under way.
BatchIdle ==
    /\ all_keywords = <<>>
    /\ batch_size = 1
    /\ day_of_month = 1
    /\ batch = <<>>
    /\ bpc = "idle"

\* No rotation followed.
RotationIdle ==
    /\ month_len = 31
    /\ days_run = 0
    /\ times_selected = <<>>

NoTotals == [available |-> 0, possible |-> 0, registered |-> 0]
NoFile == [written |-> FALSE, rows |-> <<>>]
NoEmail == [state |-> "none", base_count |-> 0, available |-> 0, possible |-> 0]

\* main before anything of it has run.
MainFresh ==
    /\ keywords = <<>>
    /\ grouped = <<>>
    /\ interesting = <<>>
    /\ totals = NoTotals
    /\ csv_file = NoFile
    /\ email = NoEmail
    /\ stderr = <<>>

\* main not run.
MainIdle == mpc = "idle" /\ MainFresh

\* keywords.py's functions not called.
KeywordsIdle ==
    /\ all_names = <<>>
    /\ unique_normalized = {}
    /\ base_name = <<>>
    /\ variations = {}
    /\ kpc = "idle"

NoRegroup == [done |-> FALSE, grouped |-> <<>>, interesting |-> <<>>]

\* No second run of the day, no second grouping.
RerunIdle ==
    /\ other_names = <<>>
    /\ other_keywords = <<>>
    /\ other_batch = <<>>
    /\ other_bpc = "idle"
    /\ regrouped = NoRegroup

\* No run under way.
RunIdle ==
    /\ domain_list = <<>>
    /\ idx = 0
    /\ pc = "idle"
    /\ rdapWorld = NoRdap
    /\ dnsWorld = NoDns
    /\ status = None
    /\ results = <<>>
    /\ calls = <<>>

Init ==
    /\ \E n \in 0..MaxDomains : domain_list = SubSeq(generate_domains(Keywords), 1, n)
    /\ idx = 0
    /\ pc = "loop"
    /\ rdapWorld = NoRdap
    /\ dnsWorld = NoDns
    /\ status = None
    /\ results = <<>>
    /\ calls = <<>>
    /\ BatchIdle
    /\ RotationIdle
    /\ RerunIdle
    /\ KeywordsIdle
    /\ MainIdle

\* `for item in domain_list:` takes the next item and calls check_domain, or
\* the loop ends and the results are returned.
LoopNext ==
    /\ pc = "loop"
    /\ IF idx < Len(domain_list)
       THEN /\ idx' = idx + 1
            /\ pc' = "rdap"
            /\ rdapWorld' \in RdapOutcomes
            /\ dnsWorld' \in DnsOutcomes
            /\ status' = None
       ELSE /\ pc' = "done"
            /\ UNCHANGED <<idx, rdapWorld, dnsWorld, status>>
    /\ UNCHANGED <<domain_list, results, calls>>
    /\ UNCHANGED <<batchVars, rotationVars, mainVars, keywordVars, rerunVars>>

\* status = check_rdap(domain)
CheckRdap ==
    /\ pc = "rdap"
    /\ calls' = Append(calls, [ev |-> "rdap", i |-> idx, ms |-> 0,
                                res |-> check_rdap(rdapWorld)])
    /\ IF check_rdap(rdapWorld) = Raise
       THEN pc' = "aborted" /\ UNCHANGED status
       ELSE /\ status' = check_rdap(rdapWorld)
            /\ pc' = IF NeedsDns(check_rdap(rdapWorld)) THEN "dns" ELSE "sleep"
    /\ UNCHANGED <<domain_list, idx, rdapWorld, dnsWorld, results>>
    /\ UNCHANGED <<batchVars, rotationVars, mainVars, keywordVars, rerunVars>>

\* status = check_dns(domain)
CheckDns ==
    /\ pc = "dns"
    /\ calls' = Append(calls, [ev |-> "dns", i |-> idx, ms |-> 0,
                                res |-> check_dns(dnsWorld)])
    /\ IF check_dns(dnsWorld) = Raise
       THEN pc' = "aborted" /\ UNCHANGED status
       ELSE status' = check_dns(dnsWorld) /\ pc' = "sleep"
    /\ UNCHANGED <<domain_list, idx, rdapWorld, dnsWorld, results>>
    /\ UNCHANGED <<batchVars, rotationVars, mainVars, keywordVars, rerunVars>>

\* The unknown classification and the delay, with the delay slept only on the
\* fallback path.
Sleep_delay_in_fallback ==
    /\ pc = "sleep"
    /\ status' = classify(status)
    /\ calls' = IF \E q \in 1..Len(calls) : calls[q].i = idx /\ calls[q].ev = "dns"
                THEN Append(calls, [ev |-> "sleep", i |-> idx, ms |-> sleep_ms,
                                    res |-> classify(status)])
                ELSE calls
    /\ pc' = "return"
    /\ UNCHANGED <<domain_list, idx, rdapWorld, dnsWorld, results>>
    /\ UNCHANGED <<batchVars, rotationVars, mainVars, keywordVars, rerunVars>>

\* The unknown classification and the delay: `if status is None: ...`, then
\* time.sleep.
Sleep ==
    /\ pc = "sleep"
    /\ status' = classify(status)
    /\ calls' = Append(calls, [ev |-> "sleep", i |-> idx, ms |-> sleep_ms,
                                res |-> classify(status)])
    /\ pc' = "return"
    /\ UNCHANGED <<domain_list, idx, rdapWorld, dnsWorld, results>>
    /\ UNCHANGED <<batchVars, rotationVars, mainVars, keywordVars, rerunVars>>

\* The return with the result put in front of the earlier ones.
Return_in_front ==
    /\ pc = "return"
    /\ results' = <<[domain |-> domain_list[idx].domain,
                     status |-> status,
                     base |-> domain_list[idx].base]>> \o results
    /\ rdapWorld' = NoRdap
    /\ dnsWorld' = NoDns
    /\ pc' = "loop"
    /\ UNCHANGED <<domain_list, idx, status, calls>>
    /\ UNCHANGED <<batchVars, rotationVars, mainVars, keywordVars, rerunVars>>

\* check_domain returns {'domain', 'status'}; the caller sets result['base']
\* and appends the result. The check is over, and with it what the registry
\* and the resolver did for its domain.
Return ==
    /\ pc = "return"
    /\ results' = Append(results, [domain |-> domain_list[idx].domain,
                                   status |-> status,
                                   base |-> domain_list[idx].base])
    /\ rdapWorld' = NoRdap
    /\ dnsWorld' = NoDns
    /\ pc' = "loop"
    /\ UNCHANGED <<domain_list, idx, status, calls>>
    /\ UNCHANGED <<batchVars, rotationVars, mainVars, keywordVars, rerunVars>>

Next == LoopNext \/ CheckRdap \/ CheckDns \/ Sleep \/ Return

Spec == Init /\ [][Next]_vars

\* ----------------------------------------------- one batch selection

InitBatch ==
    /\ \E n \in 0..MaxCorpus : all_keywords = Corpus(n)
    /\ batch_size \in 1..MaxBatch
    /\ day_of_month \in 1..31
    /\ batch = <<>>
    /\ bpc = "call"
    /\ RunIdle
    /\ RotationIdle
    /\ RerunIdle
    /\ KeywordsIdle
    /\ MainIdle

\* batch = get_todays_batch(batch_size), the corpus and the day being what
\* they are.
GetTodaysBatch ==
    /\ bpc = "call"
    /\ batch' = get_todays_batch(all_keywords, batch_size, day_of_month).batch
    /\ bpc' = IF get_todays_batch(all_keywords, batch_size, day_of_month).raised
              THEN "raised" ELSE "returned"
    /\ UNCHANGED <<all_keywords, batch_size, day_of_month>>
    /\ UNCHANGED <<runVars, rotationVars, mainVars, keywordVars, rerunVars>>

NextBatch == GetTodaysBatch

SpecBatch == InitBatch /\ [][NextBatch]_vars

\* ------------------------------------- one run a day, day after day

MonthLengths == {28, 29, 30, 31}

\* The lengths the month after a month of m days can have.
NextMonthLengths(m) == IF m = 31 THEN MonthLengths ELSE {31}

InitRotation ==
    /\ \E n \in 1..MaxCorpus :
          /\ all_keywords = Corpus(n)
          /\ times_selected = [v \in 1..n |-> 0]
    /\ batch_size \in 1..MaxBatch
    /\ month_len \in MonthLengths
    /\ day_of_month \in 1..month_len
    /\ days_run = 0
    /\ batch = <<>>
    /\ bpc = "call"
    /\ RunIdle
    /\ MainIdle
    /\ KeywordsIdle
    /\ RerunIdle

\* The day's run selects its batch; the next run is made the day after, the
\* day of month wrapping to 1 at the end of the month.
RunDay ==
    /\ days_run < MaxDays
    /\ batch' = get_todays_batch(all_keywords, batch_size, day_of_month).batch
    /\ times_selected' =
          [v \in DOMAIN times_selected |->
             IF \E k \in 1..Len(batch') : batch'[k] = all_keywords[v]
             THEN times_selected[v] + 1 ELSE times_selected[v]]
    /\ days_run' = days_run + 1
    /\ day_of_month' = IF day_of_month = month_len THEN 1 ELSE day_of_month + 1
    /\ month_len' \in IF day_of_month = month_len
                       THEN NextMonthLengths(month_len) ELSE {month_len}
    /\ UNCHANGED <<all_keywords, batch_size, bpc>>
    /\ UNCHANGED <<runVars, mainVars, keywordVars, rerunVars>>

NextRotation == RunDay

SpecRotation == InitRotation /\ [][NextRotation]_vars

\* ------------------------------------------ grouping and filtering alone

\* Check results over two bases and two TLDs, in any order and number.
SomeResults ==
    {[domain |-> b \o t, status |-> st, base |-> b] :
        b \in {"acme", "zen"}, t \in {".com", ".app"},
        st \in {STATUS_AVAILABLE, STATUS_REGISTERED, STATUS_POSSIBLE_AVAILABLE}}

\* What process_domains_sequential returns for the candidates dl when the
\* checks gave the statuses sts.
results_of_run(dl, sts) ==
    [k \in 1..Len(dl) |-> [domain |-> dl[k].domain, status |-> sts[k], base |-> dl[k].base]]

\* The results are any sequence, or those of a run over the candidates of the
\* first keywords.
InitAggregate ==
    /\ \/ /\ \E n \in 0..MaxResults : results \in [1..n -> SomeResults]
          /\ domain_list = <<>>
       \/ /\ \E n \in 1..Len(Keywords) :
                domain_list = generate_domains(SubSeq(Keywords, 1, n))
          /\ \E sts \in [1..Len(domain_list) -> CheckDomainStatuses] :
                results = results_of_run(domain_list, sts)
    /\ idx = Len(domain_list)
    /\ pc = "idle"
    /\ rdapWorld = NoRdap
    /\ dnsWorld = NoDns
    /\ status = None
    /\ calls = <<>>
    /\ mpc = "group"
    /\ MainFresh
    /\ BatchIdle
    /\ RotationIdle
    /\ RerunIdle
    /\ KeywordsIdle

\* The grouping that takes each result out of the list it is given.
GroupByBase_draining ==
    /\ mpc = "group"
    /\ grouped' = group_by_base(results)
    /\ results' = <<>>
    /\ mpc' = "filter"
    /\ UNCHANGED <<keywords, interesting, totals, csv_file, email, stderr>>
    /\ UNCHANGED <<domain_list, idx, pc, rdapWorld, dnsWorld, status, calls>>
    /\ UNCHANGED <<batchVars, rotationVars, keywordVars, rerunVars>>

\* grouped = group_by_base(results)
GroupByBase ==
    /\ mpc = "group"
    /\ grouped' = group_by_base(results)
    /\ mpc' = "filter"
    /\ UNCHANGED <<keywords, interesting, totals, csv_file, email, stderr>>
    /\ UNCHANGED <<runVars, batchVars, rotationVars, keywordVars, rerunVars>>

\* interesting = filter_interesting_groups(grouped)
FilterInteresting ==
    /\ mpc = "filter"
    /\ interesting' = filter_interesting_groups(grouped)
    /\ mpc' = "count"
    /\ UNCHANGED <<keywords, grouped, totals, csv_file, email, stderr>>
    /\ UNCHANGED <<runVars, batchVars, rotationVars, keywordVars, rerunVars>>

NextAggregate == GroupByBase \/ FilterInteresting

SpecAggregate == InitAggregate /\ [][NextAggregate]_vars

\* -------------------------------- grouping and filtering, and then again

\* group_by_base and filter_interesting_groups applied once more to the
\* results the first application was given.
GroupAndFilterAgain ==
    /\ mpc = "count"
    /\ ~regrouped.done
    /\ regrouped' = [done |-> TRUE,
                     grouped |-> group_by_base(results),
                     interesting |-> filter_interesting_groups(group_by_base(results))]
    /\ UNCHANGED <<other_names, other_keywords, other_batch, other_bpc>>
    /\ UNCHANGED <<runVars, batchVars, rotationVars, mainVars, keywordVars>>

NextRegroup == GroupByBase \/ FilterInteresting \/ GroupAndFilterAgain

SpecRegroup == InitAggregate /\ [][NextRegroup]_vars

\* ------------------------------------------------------- a run of main

\* The corpus is the first n of Keywords; the run is made on the first or on
\* the last day of a month.
InitMain ==
    /\ \E n \in 0..Len(Keywords) : all_keywords = SubSeq(Keywords, 1, n)
    /\ batch_size = MAIN_BATCH_SIZE
    /\ day_of_month \in {1, 31}
    /\ batch = <<>>
    /\ bpc = "call"
    /\ mpc = "start"
    /\ MainFresh
    /\ RunIdle
    /\ RotationIdle
    /\ RerunIdle
    /\ KeywordsIdle

\* The batch selection with a failure or an empty batch answered by a run over
\* Keywords.
MainGetBatch_falls_back ==
    /\ mpc = "start"
    /\ batch' = get_todays_batch(all_keywords, batch_size, day_of_month).batch
    /\ bpc' = "returned"
    /\ keywords' = IF Len(batch') = 0 THEN Keywords ELSE batch'
    /\ mpc' = "generate"
    /\ UNCHANGED stderr
    /\ UNCHANGED <<all_keywords, batch_size, day_of_month>>
    /\ UNCHANGED <<grouped, interesting, totals, csv_file, email>>
    /\ UNCHANGED <<runVars, rotationVars, keywordVars, rerunVars>>

\* keywords = get_todays_batch(200): an exception leaves main and the program
\* exits with "Fatal error"; an empty batch makes main return.
MainGetBatch ==
    /\ mpc = "start"
    /\ batch' = get_todays_batch(all_keywords, batch_size, day_of_month).batch
    /\ IF get_todays_batch(all_keywords, batch_size, day_of_month).raised
       THEN /\ bpc' = "raised"
            /\ mpc' = "fatal"
            /\ stderr' = Append(stderr, "Fatal error")
            /\ UNCHANGED keywords
       ELSE /\ bpc' = "returned"
            /\ keywords' = batch'
            /\ mpc' = IF Len(batch') = 0 THEN "returned" ELSE "generate"
            /\ UNCHANGED stderr
    /\ UNCHANGED <<all_keywords, batch_size, day_of_month>>
    /\ UNCHANGED <<grouped, interesting, totals, csv_file, email>>
    /\ UNCHANGED <<runVars, rotationVars, keywordVars, rerunVars>>

\* domain_list = generate_domains(keywords)
MainGenerateDomains ==
    /\ mpc = "generate"
    /\ domain_list' = generate_domains(keywords)
    /\ mpc' = "process"
    /\ UNCHANGED <<idx, pc, rdapWorld, dnsWorld, status, results, calls>>
    /\ UNCHANGED <<keywords, grouped, interesting, totals, csv_file, email, stderr>>
    /\ UNCHANGED <<batchVars, rotationVars, keywordVars, rerunVars>>

\* process_domains_sequential, one check_domain call a step: the call (its
\* network calls and its delay are those of CheckRdap, CheckDns and Sleep) is
\* logged as one entry and its result appended; after the last item the
\* results are returned.
MainCheckDomain ==
    /\ mpc = "process"
    /\ IF idx < Len(domain_list)
       THEN /\ idx' = idx + 1
            /\ \E st \in CheckDomainStatuses :
                  /\ results' = Append(results, [domain |-> domain_list[idx'].domain,
                                                 status |-> st,
                                                 base |-> domain_list[idx'].base])
                  /\ calls' = Append(calls, [ev |-> "check_domain", i |-> idx',
                                             ms |-> sleep_ms, res |-> st])
            /\ UNCHANGED mpc
       ELSE /\ mpc' = "group"
            /\ UNCHANGED <<idx, results, calls>>
    /\ UNCHANGED <<domain_list, pc, rdapWorld, dnsWorld, status>>
    /\ UNCHANGED <<keywords, grouped, interesting, totals, csv_file, email, stderr>>
    /\ UNCHANGED <<batchVars, rotationVars, keywordVars, rerunVars>>

\* The totals, with the file written whatever the groups are.
CountTotals_always_write ==
    /\ mpc = "count"
    /\ totals' = [available |-> count_status(results, STATUS_AVAILABLE),
                  possible |-> count_status(results, STATUS_POSSIBLE_AVAILABLE),
                  registered |-> count_status(results, STATUS_REGISTERED)]
    /\ mpc' = "write"
    /\ UNCHANGED <<keywords, grouped, interesting, csv_file, email, stderr>>
    /\ UNCHANGED <<runVars, batchVars, rotationVars, keywordVars, rerunVars>>

\* total_available, total_possible, total_registered, and the choice
\* `if len(interesting) > 0`.
CountTotals ==
    /\ mpc = "count"
    /\ totals' = [available |-> count_status(results, STATUS_AVAILABLE),
                  possible |-> count_status(results, STATUS_POSSIBLE_AVAILABLE),
                  registered |-> count_status(results, STATUS_REGISTERED)]
    /\ mpc' = IF Len(interesting) > 0 THEN "write" ELSE "complete"
    /\ UNCHANGED <<keywords, grouped, interesting, csv_file, email, stderr>>
    /\ UNCHANGED <<runVars, batchVars, rotationVars, keywordVars, rerunVars>>

\* results.csv is written: the header and csv_rows.
WriteCsv ==
    /\ mpc = "write"
    /\ csv_file' = [written |-> TRUE, rows |-> <<CsvHeader>> \o csv_rows(interesting)]
    /\ mpc' = "email"
    /\ UNCHANGED <<keywords, grouped, interesting, totals, email, stderr>>
    /\ UNCHANGED <<runVars, batchVars, rotationVars, keywordVars, rerunVars>>

\* The notification with its try taken away: a failure leaves main.
SendEmail_no_try ==
    /\ mpc = "email"
    /\ \E o \in EmailOutcomes :
          IF send_email(o) = Raise
          THEN /\ email' = [state |-> "failed", base_count |-> Len(interesting),
                            available |-> totals.available, possible |-> totals.possible]
               /\ stderr' = Append(stderr, "Fatal error")
               /\ mpc' = "fatal"
          ELSE /\ email' = [state |-> "sent", base_count |-> Len(interesting),
                            available |-> totals.available, possible |-> totals.possible]
               /\ mpc' = "complete"
               /\ UNCHANGED stderr
    /\ UNCHANGED <<keywords, grouped, interesting, totals, csv_file>>
    /\ UNCHANGED <<runVars, batchVars, rotationVars, keywordVars, rerunVars>>

\* try: send_email(len(interesting), total_available, total_possible,
\* interesting); except Exception: print('Failed to send email', file=stderr)
SendEmail ==
    /\ mpc = "email"
    /\ \E o \in EmailOutcomes :
          IF send_email(o) = Raise
          THEN /\ email' = [state |-> "failed", base_count |-> Len(interesting),
                            available |-> totals.available, possible |-> totals.possible]
               /\ stderr' = Append(stderr, "Failed to send email")
          ELSE /\ email' = [state |-> "sent", base_count |-> Len(interesting),
                            available |-> totals.available, possible |-> totals.possible]
               /\ UNCHANGED stderr
    /\ mpc' = "complete"
    /\ UNCHANGED <<keywords, grouped, interesting, totals, csv_file>>
    /\ UNCHANGED <<runVars, batchVars, rotationVars, keywordVars, rerunVars>>

\* print('=== Domain Hunter Completed ==='): main returns.
Complete ==
    /\ mpc = "complete"
    /\ mpc' = "completed"
    /\ UNCHANGED <<keywords, grouped, interesting, totals, csv_file, email, stderr>>
    /\ UNCHANGED <<runVars, batchVars, rotationVars, keywordVars, rerunVars>>

NextMain ==
    \/ MainGetBatch \/ MainGenerateDomains \/ MainCheckDomain
    \/ GroupByBase \/ FilterInteresting \/ CountTotals
    \/ WriteCsv \/ SendEmail \/ Complete

SpecMain == InitMain /\ [][NextMain]_vars

\* ------------------------------------------------ generate_domains alone

\* Base names, in any order, repeated or not.
SomeBases == {"acme", "zen", "zenlabs", "ab"}

InitGenerate ==
    /\ \E n \in 0..MaxBases : keywords \in [1..n -> SomeBases]
    /\ mpc = "generate"
    /\ grouped = <<>>
    /\ interesting = <<>>
    /\ totals = NoTotals
    /\ csv_file = NoFile
    /\ email = NoEmail
    /\ stderr = <<>>
    /\ RunIdle
    /\ BatchIdle
    /\ RotationIdle
    /\ RerunIdle
    /\ KeywordsIdle

NextGenerate == MainGenerateDomains

SpecGenerate == InitGenerate /\ [][NextGenerate]_vars

\* --------------------------------------------- generate_variations alone

\* n times the character c.
Rep(c, n) == [i \in 1..n |-> c]

\* Raw names about as long as a name may be: digits, and a capital before
\* digits.
LongNames ==
    {Rep("9", n) : n \in (VALID_MAX - 5)..MaxRawLen}
    \cup {<<"K">> \o Rep("9", n - 1) : n \in (VALID_MAX - 5)..MaxRawLen}

\* Raw names as the sources give them.
ACME == <<"a", "c", "m", "e">>
ACME_INC == <<"A", "c", "m", "e", ",", " ", "I", "n", "c", ".">>
ZEN == <<"z", "e", "n">>
A_I == <<"A", ".", "I">>
BANGS == <<"!", "!">>
THREE_M == <<"3", "M">>
AB == <<"a", "b">>
EMPTY == <<>>

SomeNames ==
    {ACME, ACME_INC, ZEN, A_I, BANGS, EMPTY, THREE_M, AB}

\* Every raw name of up to MaxShort characters among a letter, a capital, a
\* digit and a symbol.
ShortNames == UNION {[1..n -> {"a", "Z", "7", "-"}] : n \in 0..MaxShort}

RawNames == ShortNames \cup SomeNames \cup LongNames

InitVariations ==
    /\ base_name \in RawNames
    /\ variations = {}
    /\ kpc = "variations"
    /\ all_names = <<>>
    /\ unique_normalized = {}
    /\ RunIdle
    /\ BatchIdle
    /\ RotationIdle
    /\ RerunIdle
    /\ MainIdle

\* variations = generate_variations(base_name)
GenerateVariations ==
    /\ kpc = "variations"
    /\ variations' = generate_variations(base_name)
    /\ kpc' = "returned"
    /\ UNCHANGED <<all_names, unique_normalized, base_name>>
    /\ UNCHANGED <<runVars, batchVars, rotationVars, mainVars, rerunVars>>

NextVariations == GenerateVariations

SpecVariations == InitVariations /\ [][NextVariations]_vars

\* ------------------------------ process_all_keywords and the day's batch

DEFAULT_BATCH_SIZE == 5

\* Fetched names that are cut, or whose affixed forms are too long.
CutNames == {<<"K">> \o Rep("9", n - 1) : n \in (VALID_MAX - 4)..MaxRawLen}

InitKeywords ==
    /\ \E n \in 0..MaxNames : all_names \in [1..n -> SomeNames \cup CutNames]
    /\ unique_normalized = {}
    /\ base_name = <<>>
    /\ variations = {}
    /\ kpc = "normalize"
    /\ all_keywords = <<>>
    /\ batch_size \in {DEFAULT_BATCH_SIZE, MAIN_BATCH_SIZE}
    /\ day_of_month \in {1, 2}
    /\ batch = <<>>
    /\ bpc = "idle"
    /\ RunIdle
    /\ RotationIdle
    /\ RerunIdle
    /\ MainIdle

\* unique_names, normalized_names, unique_normalized
NormalizeAndFilter ==
    /\ kpc = "normalize"
    /\ unique_normalized' = normalize_and_filter(all_names)
    /\ kpc' = "generate"
    /\ UNCHANGED <<all_names, base_name, variations>>
    /\ UNCHANGED <<runVars, batchVars, rotationVars, mainVars, rerunVars>>

\* all_variations.update(generate_variations(name)) for each name, then
\* sorted: process_all_keywords returns and get_todays_batch has its corpus.
GenerateAllVariations ==
    /\ kpc = "generate"
    /\ all_keywords' = sorted(UNION {generate_variations(n) : n \in unique_normalized})
    /\ kpc' = "returned"
    /\ bpc' = "call"
    /\ UNCHANGED <<batch_size, day_of_month, batch>>
    /\ UNCHANGED <<all_names, unique_normalized, base_name, variations>>
    /\ UNCHANGED <<runVars, rotationVars, mainVars, rerunVars>>

NextKeywords == NormalizeAndFilter \/ GenerateAllVariations \/ GetTodaysBatch

SpecKeywords == InitKeywords /\ [][NextKeywords]_vars

\* --------------------------------------- two runs of get_todays_batch a day

ACME_CAPS == <<"A", "C", "M", "E">>

\* Fetched names, two of them with the same normalized name, one with none.
RerunNames == {ACME, ACME_CAPS, ZEN, BANGS}

InitReruns ==
    /\ \E n \in 0..MaxNames : all_names \in [1..n -> RerunNames]
    /\ \E n \in 0..MaxNames : other_names \in [1..n -> RerunNames]
    /\ batch_size = DEFAULT_BATCH_SIZE
    /\ day_of_month \in {1, 2}
    /\ all_keywords = <<>>
    /\ batch = <<>>
    /\ bpc = "call"
    /\ other_keywords = <<>>
    /\ other_batch = <<>>
    /\ other_bpc = "call"
    /\ regrouped = NoRegroup
    /\ unique_normalized = {}
    /\ base_name = <<>>
    /\ variations = {}
    /\ kpc = "idle"
    /\ RunIdle
    /\ MainIdle
    /\ RotationIdle

\* get_todays_batch, process_all_keywords included, on what this run fetched.
TodaysBatch ==
    /\ bpc = "call"
    /\ all_keywords' = process_all_keywords(all_names)
    /\ batch' = get_todays_batch(all_keywords', batch_size, day_of_month).batch
    /\ bpc' = IF get_todays_batch(all_keywords', batch_size, day_of_month).raised
              THEN "raised" ELSE "returned"
    /\ UNCHANGED <<batch_size, day_of_month>>
    /\ UNCHANGED <<other_names, other_keywords, other_batch, other_bpc, regrouped>>
    /\ UNCHANGED <<runVars, rotationVars, mainVars, keywordVars>>

\* The same on what the other run fetched.
OtherTodaysBatch ==
    /\ other_bpc = "call"
    /\ other_keywords' = process_all_keywords(other_names)
    /\ other_batch' = get_todays_batch(other_keywords', batch_size, day_of_month).batch
    /\ other_bpc' = IF get_todays_batch(other_keywords', batch_size, day_of_month).raised
                    THEN "raised" ELSE "returned"
    /\ UNCHANGED <<other_names, regrouped>>
    /\ UNCHANGED <<runVars, batchVars, rotationVars, mainVars, keywordVars>>

NextReruns == TodaysBatch \/ OtherTodaysBatch

SpecReruns == InitReruns /\ [][NextReruns]_vars

\* ------------------------------------------------- the resolver's claims

Statuses == {STATUS_AVAILABLE, STATUS_REGISTERED, STATUS_POSSIBLE_AVAILABLE}

\* check_domain is returning for item idx: rdapWorld and dnsWorld are what it
\* met and status is the status it returns.
Completed == pc = "return"

IsNet(e) == e.ev \in {"rdap", "dns"}

\* The stage of check i was run and returned r.
StageReturned(stage, i, r) ==
    \E q \in 1..Len(calls) : calls[q].ev = stage /\ calls[q].i = i /\ calls[q].res = r

DnsIssued(i) == \E q \in 1..Len(calls) : calls[q].ev = "dns" /\ calls[q].i = i

\* C1: whatever the registry and the resolver do, every check_domain returns
\* one of the three statuses: no exception leaves it, the loop is never
\* aborted, and a finished run holds a result for every candidate.
C1_AlwaysAStatus ==
    /\ pc # "aborted"
    /\ \A k \in 1..Len(results) : results[k].status \in Statuses
    /\ Completed => status \in Statuses
    /\ pc = "loop" => Len(results) = idx
    /\ pc = "done" => Len(results) = Len(domain_list)

\* A second check that met an exception in both stages, after a first that
\* found nothing either.
C1_Witness ==
    /\ Completed
    /\ idx = 2
    /\ results[1].status = STATUS_POSSIBLE_AVAILABLE
    /\ rdap_try(rdapWorld) = Raise
    /\ dns_try(dnsWorld) = Raise
    /\ status = STATUS_POSSIBLE_AVAILABLE

\* The RDAP outcomes the spec lists as inconclusive: a status code other than
\* 200 and 404, an unparseable body, a network error, a timeout.
ListedInconclusive(o) ==
    \/ o.kind \in {"ConnectionError", "Timeout"}
    \/ o.kind = "response" /\ o.code \notin {200, 404}
    \/ o.kind = "response" /\ o.code = 200 /\ o.body.kind = "nonjson"

\* C2: after an inconclusive RDAP stage the DNS stage alone decides: NS records
\* give REGISTERED, NXDOMAIN and NoAnswer give AVAILABLE, any other resolver
\* error gives POSSIBLE_AVAILABLE; and POSSIBLE_AVAILABLE is returned exactly
\* when both stages were inconclusive.
C2_DnsDecides ==
    Completed =>
      /\ (ListedInconclusive(rdapWorld) \/ StageReturned("rdap", idx, None)) =>
           /\ (dnsWorld.kind = "answer" /\ dnsWorld.n >= 1)
                => status = STATUS_REGISTERED
           /\ dnsWorld.kind \in {"NXDOMAIN", "NoAnswer"}
                => status = STATUS_AVAILABLE
           /\ dnsWorld.kind \in {"Timeout", "NoNameservers"}
                => status = STATUS_POSSIBLE_AVAILABLE
      /\ status = STATUS_POSSIBLE_AVAILABLE
           <=> /\ StageReturned("rdap", idx, None)
               /\ dnsWorld.kind \in {"Timeout", "NoNameservers"}

\* A registry timeout followed by a NoAnswer from the resolver.
C2_Witness ==
    /\ Completed
    /\ rdapWorld.kind = "Timeout"
    /\ dnsWorld.kind = "NoAnswer"
    /\ status = STATUS_AVAILABLE

\* C3: an RDAP 404 gives AVAILABLE whatever the resolver would have said, and
\* the resolver is not asked.
C3_NotFoundIsAvailable ==
    (Completed /\ rdapWorld.kind = "response" /\ rdapWorld.code = 404) =>
        status = STATUS_AVAILABLE /\ ~DnsIssued(idx)

\* A 404 for a domain whose NS records the resolver would have returned.
C3_Witness ==
    /\ Completed
    /\ rdapWorld.kind = "response" /\ rdapWorld.code = 404
    /\ dnsWorld.kind = "answer" /\ dnsWorld.n >= 1
    /\ status = STATUS_AVAILABLE

\* A status token equal to "active" or "ok" but for letter case.
TokenEquals(s) == s.isStr /\ LowerStr(s.text) \in {StrActive, StrOk}

\* A parsed 200 body (a JSON object) with a status list holding such a token.
HasEqualToken(o) ==
    /\ o.body.hasStatus /\ o.body.statusIsList
    /\ \E k \in 1..Len(o.body.statusList) : TokenEquals(o.body.statusList[k])

Parsed200(o) == o.kind = "response" /\ o.code = 200 /\ o.body.kind = "object"

\* C4: a 200 whose parsed body has a status token matching "active" or "ok", or
\* has nameserver or entity records, gives REGISTERED with no DNS query.
C4_SignalsAreTerminal ==
    (Completed /\ Parsed200(rdapWorld)
       /\ (HasEqualToken(rdapWorld) \/ HasRecords(rdapWorld.body))) =>
        status = STATUS_REGISTERED /\ ~DnsIssued(idx)

\* A status element that is a string holding "active" or "ok", whatever the case.
HasContainingToken(o) ==
    /\ o.body.hasStatus /\ o.body.statusIsList
    /\ \E k \in 1..Len(o.body.statusList) :
          /\ o.body.statusList[k].isStr
          /\ \/ Contains(StrActive, LowerStr(o.body.statusList[k].text))
             \/ Contains(StrOk, LowerStr(o.body.statusList[k].text))

\* What the DNS stage and the unknown classification make of the resolver's
\* answer.
DnsVerdict(d) ==
    IF d.kind = "answer" /\ d.n >= 1 THEN STATUS_REGISTERED
    ELSE IF d.kind \in {"answer", "NXDOMAIN", "NoAnswer"} THEN STATUS_AVAILABLE
    ELSE STATUS_POSSIBLE_AVAILABLE

\* C5 as stated: a parsed 200 body with no status token matching "active" or
\* "ok" and no nameserver or entity records leaves the RDAP stage inconclusive,
\* and the DNS stage decides.
C5_Original ==
    (Completed /\ Parsed200(rdapWorld)
       /\ ~HasEqualToken(rdapWorld) /\ ~HasRecords(rdapWorld.body)) =>
        /\ StageReturned("rdap", idx, None)
        /\ DnsIssued(idx)
        /\ status = DnsVerdict(dnsWorld)

\* C5, amended: a 200 body that parses, whose status list has no string
\* element containing "active" or "ok" (in any letter case) and in which
\* neither 'entities' nor 'nameservers' is present, leaves the RDAP stage
\* inconclusive, and the DNS stage decides.
C5_NoSignalFallsThrough ==
    (Completed /\ rdapWorld.kind = "response" /\ rdapWorld.code = 200
       /\ rdapWorld.body.kind # "nonjson"
       /\ ~HasContainingToken(rdapWorld) /\ ~HasRecords(rdapWorld.body)) =>
        /\ StageReturned("rdap", idx, None)
        /\ DnsIssued(idx)
        /\ status = DnsVerdict(dnsWorld)

\* A 200 with status ["client hold"] and no records, for a domain the resolver
\* does not know.
C5_Witness ==
    /\ Completed
    /\ Parsed200(rdapWorld)
    /\ rdapWorld.body.statusList = <<TokHold>>
    /\ ~HasRecords(rdapWorld.body)
    /\ dnsWorld.kind = "NXDOMAIN"
    /\ status = STATUS_AVAILABLE

\* C6: in each check the RDAP request is the first call and is made once; a DNS
\* query is made at most once, after the RDAP request, and only when that
\* returned no verdict; the delay follows the calls, and nothing is retried.
C6_CallOrder ==
    \A q \in 1..Len(calls) :
        /\ calls[q].ev = "rdap" =>
             \A p \in 1..(q - 1) : calls[p].i # calls[q].i
        /\ calls[q].ev = "dns" =>
             /\ \E p \in 1..(q - 1) :
                   calls[p].i = calls[q].i /\ calls[p].ev = "rdap" /\ calls[p].res = None
             /\ \A p \in 1..(q - 1) :
                   calls[p].i = calls[q].i => calls[p].ev = "rdap"
        /\ calls[q].ev = "sleep" =>
             \E p \in 1..(q - 1) : calls[p].i = calls[q].i /\ calls[p].ev = "rdap"

\* A completed check that made both calls, the RDAP request first.
C6_Witness ==
    /\ Completed
    /\ Len(calls) >= 3
    /\ calls[Len(calls) - 2].ev = "rdap" /\ calls[Len(calls) - 2].i = idx
    /\ calls[Len(calls) - 1].ev = "dns" /\ calls[Len(calls) - 1].i = idx

\* C7: checks do not overlap, and between the last network call of one check
\* and the first of the next lies exactly one delay, of DELAY_MS.
C7_DelayBetweenChecks ==
    \A p \in 1..Len(calls) : \A q \in (p + 1)..Len(calls) :
        /\ calls[p].i <= calls[q].i
        /\ (IsNet(calls[p]) /\ IsNet(calls[q]) /\ calls[p].i # calls[q].i
              /\ \A m \in (p + 1)..(q - 1) : ~IsNet(calls[m])) =>
             /\ q = p + 2
             /\ calls[p + 1].ev = "sleep"
             /\ calls[p + 1].ms = DELAY_MS

\* A second check begun after a first that ended on the fast 404 path.
C7_Witness ==
    /\ Len(calls) >= 3
    /\ calls[1].ev = "rdap" /\ calls[1].res = STATUS_AVAILABLE
    /\ calls[2].ev = "sleep"
    /\ calls[3].ev = "rdap" /\ calls[3].i = 2

\* ------------------------------------------- the batch selection's claims

\* C8: on an empty corpus batch selection returns the empty batch, whatever
\* the day and the batch size, and raises nothing.
C8_EmptyCorpusEmptyBatch ==
    (bpc \in {"returned", "raised"} /\ Len(all_keywords) = 0) =>
        bpc = "returned" /\ batch = <<>>

\* C9: run on consecutive days, the rotation has selected every variation
\* exactly once when total_batches days have passed.
C9_RotationCovers ==
    days_run = total_batches(Len(all_keywords), batch_size) =>
        \A v \in DOMAIN times_selected : times_selected[v] = 1

\* ceil(n / size), by its definition.
CeilDiv(n, size) == CHOOSE k \in 0..n : k * size >= n /\ (k = 0 \/ (k - 1) * size < n)

\* The slice [start, end) of the corpus, element by element.
ExpectedSlice(corpus, start, end) == [k \in 1..(end - start) |-> corpus[start + k]]

ExpectedBatch(corpus, size, day) ==
    LET total == CeilDiv(Len(corpus), size)
        start == ((day - 1) % total) * size
        end == IF start + size < Len(corpus) THEN start + size ELSE Len(corpus)
    IN ExpectedSlice(corpus, start, end)

\* 1000 variations in batches of 200: days 1, 6 and 31 select indices 0..199.
C10_Example ==
    \A d \in {1, 6, 31} :
        get_todays_batch(Corpus(1000), 200, d) =
            [raised |-> FALSE, batch |-> [k \in 1..200 |-> k]]

\* C10: for a corpus that is not empty the batch is the slice [start, end) with
\* current_batch = (d - 1) mod ceil(N / B), start = current_batch * B and
\* end = min(start + B, N); it holds between 1 and B variations, fewer than B
\* only for the last batch index; and days with the same (d - 1) mod
\* total_batches select the same slice.
C10_BatchIsTheSlice ==
    (bpc \in {"returned", "raised"} /\ Len(all_keywords) >= 1) =>
        LET total == CeilDiv(Len(all_keywords), batch_size)
        IN /\ bpc = "returned"
           /\ batch = ExpectedBatch(all_keywords, batch_size, day_of_month)
           /\ Len(batch) >= 1 /\ Len(batch) <= batch_size
           /\ Len(batch) < batch_size => (day_of_month - 1) % total = total - 1
           /\ \A d \in 1..31 :
                 (d - 1) % total = (day_of_month - 1) % total =>
                     get_todays_batch(all_keywords, batch_size, d).batch = batch
           /\ C10_Example

\* Seven variations in batches of three on day 6: the short last batch.
C10_Witness ==
    /\ bpc = "returned"
    /\ Len(all_keywords) = 7
    /\ batch_size = 3
    /\ day_of_month = 6
    /\ batch = <<7>>

\* The slices of batch indices first..(total - 1), one after the other.
RECURSIVE SlicesFrom(_, _, _, _)
SlicesFrom(corpus, size, first, total) ==
    IF first >= total THEN <<>>
    ELSE Slice(corpus, start_index(first, size),
               end_index(start_index(first, size), size, Len(corpus)))
         \o SlicesFrom(corpus, size, first + 1, total)

\* C11: the slices of batch indices 0..total_batches-1 partition the sorted
\* corpus: each begins where the one before ends, none is empty, every
\* variation lies in exactly one of them, and one after the other they are the
\* corpus; the batch selected is one of them.
C11_SlicesPartition ==
    bpc = "returned" =>
        LET n == Len(all_keywords)
            total == total_batches(n, batch_size)
            s(b) == start_index(b, batch_size)
            e(b) == end_index(s(b), batch_size, n)
        IN /\ s(0) = 0
           /\ e(total - 1) = n
           /\ \A b \in 0..(total - 2) : e(b) = s(b + 1)
           /\ \A b \in 0..(total - 1) : s(b) < e(b)
           /\ \A v \in 1..n :
                 Cardinality({b \in 0..(total - 1) : s(b) < v /\ v <= e(b)}) = 1
           /\ SlicesFrom(all_keywords, batch_size, 0, total) = all_keywords
           /\ \E b \in 0..(total - 1) : batch = Slice(all_keywords, s(b), e(b))

\* Seven variations in batches of three: three slices, the last one short.
C11_Witness ==
    /\ bpc = "returned"
    /\ Len(all_keywords) = 7
    /\ batch_size = 3
    /\ total_batches(7, 3) = 3
    /\ batch = <<4, 5, 6>>

\* ------------------------------------------------- the aggregator's claims

\* The results of one base, in the order they were produced.
ResultsOfBase(rs, b) ==
    LET OfBase(r) == r.base = b IN SelectSeq(rs, OfBase)

\* The bases of rs in the order each is first seen.
RECURSIVE FirstSeen(_)
FirstSeen(rs) ==
    IF rs = <<>> THEN <<>>
    ELSE LET front == FirstSeen(SubSeq(rs, 1, Len(rs) - 1))
             b == rs[Len(rs)].base
         IN IF \E k \in 1..Len(front) : front[k] = b THEN front ELSE Append(front, b)

Filtered == mpc \in {"count", "write", "email", "complete", "completed"}

\* C12: once the groups are filtered, a base is among them if and only if
\* one of its results has a status other than REGISTERED; a group that is kept
\* holds every result of its base, the REGISTERED ones too, and no base is
\* kept twice.
C12_FilterKeepsInteresting ==
    Filtered =>
        /\ \A b \in {"acme", "zen"} :
              HasKey(interesting, b) <=>
                  \E k \in 1..Len(results) :
                      results[k].base = b /\ results[k].status # STATUS_REGISTERED
        /\ \A g \in 1..Len(interesting) :
              /\ interesting[g].results = ResultsOfBase(results, interesting[g].base)
              /\ \A h \in 1..Len(interesting) :
                    interesting[h].base = interesting[g].base => h = g

\* A base with a REGISTERED and an AVAILABLE result is kept with both, next
\* to a base dropped because both of its results are REGISTERED.
C12_Witness ==
    /\ Filtered
    /\ Len(results) = 4
    /\ Len(interesting) = 1
    /\ interesting[1].base = "acme"
    /\ Len(interesting[1].results) = 2
    /\ interesting[1].results[1].status = STATUS_REGISTERED
    /\ interesting[1].results[2].status = STATUS_AVAILABLE
    /\ \E k \in 1..Len(results) : results[k].base = "zen"

\* ---------------------------------------------------- the claims of a run

\* The number of results in the groups before group g.
RECURSIVE RowsBefore(_, _)
RowsBefore(gs, g) ==
    IF g <= 1 THEN 0 ELSE RowsBefore(gs, g - 1) + Len(gs[g - 1].results)

Decided == mpc \in {"write", "email", "complete", "completed", "fatal", "returned"}

\* C13: a run that ends has written the results file if and only if there is
\* an interesting group; the file written is the header base,domain,status and
\* then one row for each result of each interesting group, group after group
\* and result after result, with no row of a base that was dropped; a run with
\* no interesting group never writes the file and never attempts the
\* notification.
C13_FileIffInteresting ==
    /\ mpc = "completed" => (csv_file.written <=> Len(interesting) > 0)
    /\ csv_file.written =>
          /\ Len(interesting) > 0
          /\ Len(csv_file.rows) = 1 + RowsBefore(interesting, Len(interesting) + 1)
          /\ csv_file.rows[1] = <<"base", "domain", "status">>
          /\ \A g \in 1..Len(interesting) :
                \A k \in 1..Len(interesting[g].results) :
                    csv_file.rows[1 + RowsBefore(interesting, g) + k]
                        = << interesting[g].base,
                             interesting[g].results[k].domain,
                             interesting[g].results[k].status >>
          /\ \A n \in 2..Len(csv_file.rows) :
                /\ HasKey(interesting, csv_file.rows[n][1])
                /\ \E k \in 1..Len(results) :
                      /\ results[k].domain = csv_file.rows[n][2]
                      /\ results[k].base = csv_file.rows[n][1]
                      /\ results[k].status = csv_file.rows[n][3]
    /\ (Decided /\ Len(interesting) = 0) =>
          /\ csv_file = NoFile
          /\ email.state = "none"
    /\ email.state # "none" => csv_file.written

\* A finished run that kept one base of two and wrote its four rows under the
\* header.
C13_Witness ==
    /\ mpc = "completed"
    /\ Len(grouped) = 2
    /\ Len(interesting) = 1
    /\ csv_file.written
    /\ Len(csv_file.rows) = 5
    /\ \E k \in 2..5 : csv_file.rows[k][3] = STATUS_REGISTERED

InStderr(line) == \E k \in 1..Len(stderr) : stderr[k] = line

\* C14: whenever the notification has been attempted the results file is
\* already written in full; when the attempt failed the failure is on stderr as
\* a warning, the file is as it was written, and the run goes on to complete
\* and is never a fatal error.
C14_EmailFailureIsAWarning ==
    /\ email.state # "none" =>
          /\ csv_file.written
          /\ csv_file.rows = <<CsvHeader>> \o csv_rows(interesting)
    /\ email.state = "failed" =>
          /\ InStderr("Failed to send email")
          /\ ~InStderr("Fatal error")
          /\ mpc \in {"complete", "completed"}

\* A run that completed after its notification failed, with its file written.
C14_Witness ==
    /\ mpc = "completed"
    /\ email.state = "failed"
    /\ csv_file.written
    /\ Len(csv_file.rows) > 1

\* --------------------------------------- the sequential processing's claim

ResultsFollowCandidates ==
    /\ Len(results) = IF pc \in {"loop", "done"} THEN idx ELSE idx - 1
    /\ pc = "done" => Len(results) = Len(domain_list)
    /\ \A k \in 1..Len(results) :
          /\ results[k].domain = domain_list[k].domain
          /\ results[k].base = domain_list[k].base
          /\ results[k].status \in Statuses

ResultsOnlyGrow ==
    /\ Len(results') >= Len(results)
    /\ \A k \in 1..Len(results) : results'[k] = results[k]

\* C15: the results are one for each candidate checked so far, in the
\* candidates' order, result i with the domain and the base of candidate i;
\* when the loop is done there are as many results as candidates; and no step
\* changes a result that is already in the list.
C15_OneResultPerCandidate ==
    [] ResultsFollowCandidates /\ [][ResultsOnlyGrow]_vars

\* The loop is done with two candidates: two results of different statuses,
\* each with its own candidate's domain.
C15_Witness ==
    /\ pc = "done"
    /\ Len(domain_list) = 2
    /\ Len(results) = 2
    /\ results[1].domain # results[2].domain
    /\ results[1].status = STATUS_REGISTERED
    /\ results[2].status = STATUS_AVAILABLE

\* ------------------------------------------------ generate_domains' claim

Generated == mpc = "process" /\ idx = 0

\* C18: the candidates generated from the base names are the cross product
\* with the TLDs, base after base and within a base TLD after TLD: there are
\* len(bases) * len(TLDS) of them, the one at i * len(TLDS) + j (from 0) has
\* base i, TLD j and the domain base + tld, and when no base is repeated no
\* domain is.
C18_CrossProductInOrder ==
    Generated =>
        /\ Len(domain_list) = Len(keywords) * Len(TLDS)
        /\ \A i \in 0..(Len(keywords) - 1) :
              \A j \in 0..(Len(TLDS) - 1) :
                  domain_list[i * Len(TLDS) + j + 1]
                      = [base |-> keywords[i + 1],
                         domain |-> keywords[i + 1] \o TLDS[j + 1],
                         tld |-> TLDS[j + 1]]
        /\ (\A a, b \in 1..Len(keywords) : keywords[a] = keywords[b] => a = b)
              => \A a, b \in 1..Len(domain_list) :
                    domain_list[a].domain = domain_list[b].domain => a = b

\* Three different bases, the longer before the shorter it begins with, gave
\* twelve candidates.
C18_Witness ==
    /\ Generated
    /\ keywords = <<"zenlabs", "zen", "acme">>
    /\ Len(domain_list) = 12
    /\ domain_list[1].domain = "zenlabs.com"
    /\ domain_list[12].domain = "acme.so"

\* --------------------------------------------------- the grouping's claim

\* The bases of the groups gs, in the groups' order.
KeysOf(gs) == [g \in 1..Len(gs) |-> gs[g].base]

\* The members of the sequence bs that are keys of gs, in the order of bs.
KeptOf(bs, gs) ==
    LET Kept(b) == HasKey(gs, b) IN SelectSeq(bs, Kept)

Grouped == mpc \in {"filter", "count"}

\* C19: the groups are keyed by the bases in the order each base is first
\* seen in the results, and the filtered groups keep that order; each group
\* holds the results of its base in the order they were produced; after a run
\* each group holds one result for each TLD, in the order of TLDS.
C19_GroupingKeepsOrder ==
    /\ Grouped =>
          /\ KeysOf(grouped) = FirstSeen(results)
          /\ \A g \in 1..Len(grouped) :
                grouped[g].results = ResultsOfBase(results, grouped[g].base)
          /\ domain_list # <<>> =>
                \A g \in 1..Len(grouped) :
                    /\ Len(grouped[g].results) = Len(TLDS)
                    /\ \A j \in 1..Len(TLDS) :
                          grouped[g].results[j].domain = grouped[g].base \o TLDS[j]
    /\ mpc = "count" =>
          /\ KeysOf(interesting) = KeptOf(FirstSeen(results), interesting)
          /\ \A g \in 1..Len(interesting) :
                interesting[g].results = ResultsOfBase(results, interesting[g].base)

\* Results of two bases interleaved, the base seen second first in the
\* alphabet: both groups are kept in the order seen, the first with its two
\* results in the order produced.
C19_Witness ==
    /\ mpc = "count"
    /\ Len(results) = 3
    /\ results[1].base = "zen"
    /\ results[2].base = "acme"
    /\ results[3].base = "zen"
    /\ results[1].domain # results[3].domain
    /\ KeysOf(interesting) = <<"zen", "acme">>
    /\ interesting[1].results = <<results[1], results[3]>>

\* A run's results grouped: two groups of four, TLD after TLD.
C19_RunWitness ==
    /\ mpc = "count"
    /\ Len(domain_list) = 8
    /\ Len(grouped) = 2
    /\ Len(grouped[2].results) = 4
    /\ grouped[2].results[4].domain = "zen.so"

\* ------------------------------------------------ the empty corpus' claim

\* C20: with an empty keyword corpus the run goes no further than the batch
\* selection: no candidate is generated, no check_domain call (so no RDAP call,
\* no DNS call and no delay) is made, no result exists, the results file is not
\* written and the notification is not attempted.
C20_EmptyCorpusEndsEarly ==
    all_keywords = <<>> =>
        /\ mpc \in {"start", "fatal", "returned"}
        /\ keywords = <<>>
        /\ domain_list = <<>>
        /\ calls = <<>>
        /\ results = <<>>
        /\ csv_file = NoFile
        /\ email = NoEmail

\* The run on an empty corpus has ended, at the batch selection.
C20_Witness ==
    /\ all_keywords = <<>>
    /\ bpc # "call"
    /\ mpc \in {"fatal", "returned"}
    /\ csv_file = NoFile

\* ------------------------------------------------- the keywords' claims

OnlyAllowedChars(n) == \A i \in 1..Len(n) : \E k \in 1..Len(CharOrder) : n[i] = CharOrder[k]

LengthInRange(n) == 3 <= Len(n) /\ Len(n) <= 25

\* The characters of n that are letters or digits, of either case.
AlnumCount(n) == Cardinality({i \in 1..Len(n) : KeptChar(Lower(n[i]))})

TheAffixes == {<<"a", "i">>, <<"l", "a", "b", "s">>,
               <<"c", "l", "o", "u", "d">>, <<"t", "e", "c", "h">>}

ExpectedVariations(b) ==
    {b} \cup {v \in {b \o a : a \in TheAffixes} \cup {a \o b : a \in TheAffixes} :
                 Len(v) <= 25}

AcmeVariations ==
    {<<"a", "c", "m", "e">>,
     <<"a", "c", "m", "e", "a", "i">>,
     <<"a", "c", "m", "e", "l", "a", "b", "s">>,
     <<"a", "c", "m", "e", "c", "l", "o", "u", "d">>,
     <<"a", "c", "m", "e", "t", "e", "c", "h">>,
     <<"a", "i", "a", "c", "m", "e">>,
     <<"l", "a", "b", "s", "a", "c", "m", "e">>,
     <<"c", "l", "o", "u", "d", "a", "c", "m", "e">>,
     <<"t", "e", "c", "h", "a", "c", "m", "e">>}

\* C16: generate_variations of a name made of [a-z0-9] and 3 to 25 long is
\* the name itself and the name with each of ai, labs, cloud, tech after it and
\* before it, those of them that are at most 25 long, and nothing else; each is
\* made of [a-z0-9] and 3 to 25 long; acme gives its nine names; a name with
\* fewer than three letters and digits gives nothing.
C16_VariationsOfABase ==
    kpc = "returned" =>
        /\ (OnlyAllowedChars(base_name) /\ LengthInRange(base_name)) =>
              /\ variations = ExpectedVariations(base_name)
              /\ base_name \in variations
        /\ \A v \in variations : OnlyAllowedChars(v) /\ LengthInRange(v)
        /\ base_name = ACME => variations = AcmeVariations
        /\ AlnumCount(base_name) < 3 => variations = {}

\* The variations of a name 21 long: itself, and with ai, labs and tech (not
\* cloud) after it and before it.
C16_Witness ==
    /\ kpc = "returned"
    /\ OnlyAllowedChars(base_name)
    /\ Len(base_name) = 21
    /\ Cardinality(variations) = 7
    /\ \E v \in variations : Len(v) = 25 /\ SubSeq(v, 1, 4) = <<"l", "a", "b", "s">>

NameInvariant(n) == OnlyAllowedChars(n) /\ LengthInRange(n)

\* C17: normalize_name of every fetched name is made of [a-z0-9] and at most
\* 25 long, and is empty for a name with no letter or digit; is_valid_name
\* holds of a name exactly when it is 3 to 25 long; and every name kept for
\* variation generation, every name of the corpus and every name of the day's
\* batch is made of [a-z0-9] and 3 to 25 long.
C17_NamesAreDomainSafe ==
    /\ \A k \in 1..Len(all_names) :
          /\ OnlyAllowedChars(normalize_name(all_names[k]))
          /\ Len(normalize_name(all_names[k])) <= 25
          /\ AlnumCount(all_names[k]) = 0 => normalize_name(all_names[k]) = <<>>
          /\ is_valid_name(all_names[k]) <=> LengthInRange(all_names[k])
          /\ is_valid_name(normalize_name(all_names[k]))
                <=> LengthInRange(normalize_name(all_names[k]))
    /\ \A n \in unique_normalized : NameInvariant(n)
    /\ \A k \in 1..Len(all_keywords) : NameInvariant(all_keywords[k])
    /\ \A k \in 1..Len(batch) : NameInvariant(batch[k])

\* A symbol-only name and a name longer than 25 were fetched; the day's batch
\* holds the long name cut to 25.
C17_Witness ==
    /\ bpc = "returned"
    /\ \E k \in 1..Len(all_names) : all_names[k] = BANGS
    /\ \E k \in 1..Len(all_names) : Len(all_names[k]) > 25
    /\ \E k \in 1..Len(batch) : Len(batch[k]) = 25

\* ------------------------------------------- the reproducible batch's claim

StrictlyAscending(names) ==
    \A k \in 1..(Len(names) - 1) : StrLess(names[k], names[k + 1])

\* The fetched names as a set, each in its normalized form.
NormalizedSet(names) == {normalize_name(names[k]) : k \in 1..Len(names)}

BothSelected == bpc # "call" /\ other_bpc # "call"

\* C21: the corpus a run hands to the batch selection is strictly ascending;
\* and two runs of a day whose fetched names are the same once normalized,
\* whatever their order and however often each occurs, have the same corpus
\* and select the same batch, or both fail.
C21_SameNamesSameBatch ==
    /\ StrictlyAscending(all_keywords)
    /\ StrictlyAscending(other_keywords)
    /\ (BothSelected /\ NormalizedSet(all_names) = NormalizedSet(other_names)) =>
          /\ all_keywords = other_keywords
          /\ batch = other_batch
          /\ bpc = other_bpc

\* One run fetched ACME and zen, the other zen and acme: both selected the
\* same five names of a corpus of eighteen.
C21_Witness ==
    /\ BothSelected
    /\ all_names = <<ACME_CAPS, ZEN>>
    /\ other_names = <<ZEN, ACME>>
    /\ Len(all_keywords) = 18
    /\ Len(batch) = 5
    /\ batch = other_batch

\* ------------------------------------------- the repeated grouping's claim

SameMappings ==
    regrouped.done =>
        /\ regrouped.grouped = grouped
        /\ regrouped.interesting = interesting

ResultsUntouched == results' = results

Counted == mpc \in {"write", "email", "complete", "completed"}

\* The places (group, position) where the result r is in the groups gs.
PlacesOf(gs, r) ==
    {p \in {<<g, k>> : g \in 1..Len(gs), k \in 1..Len(results)} :
        /\ p[2] <= Len(gs[p[1]].results)
        /\ gs[p[1]].results[p[2]] = r}

\* The results with status st in the groups gs.
RowsWithStatus(gs, st) ==
    {p \in {<<g, k>> : g \in 1..Len(gs), k \in 1..Len(results)} :
        /\ p[2] <= Len(gs[p[1]].results)
        /\ gs[p[1]].results[p[2]].status = st}

\* C23: once a run has counted, every AVAILABLE or POSSIBLE_AVAILABLE result
\* is in the interesting groups exactly once; the available and the possible
\* counts are the numbers of such results in those groups; and the three
\* counts add up to the number of domains checked, the batch's length times
\* the number of TLDs.
C23_CountersMatchGroups ==
    Counted =>
        /\ \A k \in 1..Len(results) :
              results[k].status \in {STATUS_AVAILABLE, STATUS_POSSIBLE_AVAILABLE}
                  => Cardinality(PlacesOf(interesting, results[k])) = 1
        /\ totals.available = Cardinality(RowsWithStatus(interesting, STATUS_AVAILABLE))
        /\ totals.possible = Cardinality(RowsWithStatus(interesting, STATUS_POSSIBLE_AVAILABLE))
        /\ totals.available + totals.possible + totals.registered = Len(domain_list)
        /\ Len(domain_list) = Len(keywords) * Len(TLDS)
        /\ Len(results) = Len(domain_list)

\* A finished run of two keywords: one group kept for a single possibly
\* available domain, the other for two available ones, five domains
\* registered.
C23_Witness ==
    /\ mpc = "completed"
    /\ Len(keywords) = 2
    /\ totals = [available |-> 2, possible |-> 1, registered |-> 5]
    /\ Len(interesting) = 2
    /\ Cardinality(RowsWithStatus(interesting, STATUS_REGISTERED)) = 5
    /\ Cardinality(RowsWithStatus(<<interesting[1]>>, STATUS_POSSIBLE_AVAILABLE)) = 1
    /\ Cardinality(RowsWithStatus(<<interesting[1]>>, STATUS_AVAILABLE)) = 0

====
